---- MODULE Spec2Model ----
(***************************************************************************)
(* Evidence Miner v5.2: the App component (workflow state, live hit count  *)
(* effect, stage handlers) with the PubMed and Gemini services it calls.   *)
(*                                                                         *)
(* One step of the model is one uninterrupted run of JavaScript: a user    *)
(* event handler up to its first pending await, a timer callback, or the   *)
(* continuation of an async function after a promise settles.  React       *)
(* commits the state updates of such a run and runs the effect whose       *)
(* dependency changed before the next event is handled, so the effect on   *)
(* [state.meshTerms] is part of every step that stores a new meshTerms     *)
(* array.  A handler reads `state` of the render it was created in, which  *)
(* at the moment of the event is the current state; what it reads later,   *)
(* after an await, is the value captured at the event.                     *)
(*                                                                         *)
(* loadingMessage, the progress label, is written by the handlers and read *)
(* by nothing but the overlay that shows it; the model leaves it out.      *)
(***************************************************************************)
EXTENDS Integers, Sequences, FiniteSets, Bags, TLC

VARIABLES
  state,        \* WorkflowState held by useState
  timers,       \* pending debounce timers, each with the meshTerms it captured
  cleanup,      \* the timer the last effect run's cleanup will clear
  counts,       \* count requests (esearch, retmax 0) in flight
  ops,          \* stage operations suspended at an await
  apiKey,       \* process.env.API_KEY is set
  currentYear,  \* new Date().getFullYear()
  env           \* what the two backing services can answer in this run

vars == <<state, timers, cleanup, counts, ops, apiKey, currentYear, env>>

(***************************************************************************)
(* Bounds of the model.                                                    *)
(***************************************************************************)
MaxOps == 1        \* stage operations in flight together
MaxCounts == 1     \* count requests in flight together
MaxTerms == 3      \* terms of a list given to constructQuery
MaxAuthorNodes == 7      \* Author elements of an AuthorList
MaxReferenceNodes == 12  \* Reference elements of a ReferenceList
MaxBatch == 2      \* records of a batch that mixes kinds of records

\* what the user types, as characters
Texts == {<<>>, <<"x">>}
\* the totals the index reports
Totals == {0, 1}
Years == {2026}

(***************************************************************************)
(* The backing services of a run: the arrays of headings the extraction    *)
(* oracle answers with, whether an extraction request can fail, the id     *)
(* lists the index resolves a query to, and whether the services also give *)
(* their degenerate answers (an empty text, a document without records, a  *)
(* rejected fetch), what the translation oracle answers with (see          *)
(* TranslateResults), and whether the index also serves records that lack  *)
(* the PMID and ArticleTitle elements, or any of the batches of Batches.   *)
(***************************************************************************)
EnvTerms ==
  [ termLists    |-> {<<>>, <<"a", "b">>},
    extractFails |-> FALSE,
    idLists      |-> {<<>>, <<"1">>},
    degenerate   |-> FALSE,
    translations |-> {"full"},
    bareRecords  |-> FALSE,
    anyRecords   |-> FALSE ]

EnvDocs ==
  [ termLists    |-> {<<"a">>},
    extractFails |-> FALSE,
    idLists      |-> {<<>>, <<"1", "2">>},
    degenerate   |-> FALSE,
    translations |-> {"full"},
    bareRecords  |-> FALSE,
    anyRecords   |-> FALSE ]

EnvDegenerate ==
  [ termLists    |-> {<<"a">>},
    extractFails |-> TRUE,
    idLists      |-> {<<>>, <<"1">>},
    degenerate   |-> TRUE,
    translations |-> {"full", "short", "titles"},
    bareRecords  |-> FALSE,
    anyRecords   |-> FALSE ]

\* for the steps from Get Articles on: two documents, every kind of answer
\* of the translation oracle, records with and without their elements
EnvResults ==
  [ termLists    |-> {<<"a">>},
    extractFails |-> FALSE,
    idLists      |-> {<<"1", "2">>},
    degenerate   |-> FALSE,
    translations |-> {"full", "short", "long", "blank", "none", "titles", "null"},
    bareRecords  |-> TRUE,
    anyRecords   |-> FALSE ]

\* one term and one document; every operation has its failures: the
\* extraction its fallback, the translation its null
EnvBusy ==
  [ termLists    |-> {<<"a">>},
    extractFails |-> TRUE,
    idLists      |-> {<<>>, <<"1">>},
    degenerate   |-> FALSE,
    translations |-> {"full", "null"},
    bareRecords  |-> FALSE,
    anyRecords   |-> FALSE ]

\* for fetchArticleDetails: the index answers with any batch of records
EnvParse ==
  [ termLists    |-> {<<"a">>},
    extractFails |-> FALSE,
    idLists      |-> {<<"1", "2">>},
    degenerate   |-> FALSE,
    translations |-> {"full"},
    bareRecords  |-> FALSE,
    anyRecords   |-> TRUE ]

Envs == {EnvTerms, EnvDocs, EnvDegenerate}

(***************************************************************************)
(* Nullable values: null is None, a value v is Some(v).                    *)
(***************************************************************************)
None == <<>>
Some(v) == <<v>>

Range(s) == {s[i] : i \in 1..Len(s)}

\* the indices k of s, in order, as the subsequence of their elements
RECURSIVE Filter(_, _)
Filter(s, keep) ==
  IF s = <<>> THEN <<>>
  ELSE (IF Head(s) \in keep THEN <<Head(s)>> ELSE <<>>) \o Filter(Tail(s), keep)

\* a pending call added to, and a settled one taken from, those in flight
Add(bag, x) == bag (+) SetToBag({x})
Remove(bag, x) == bag (-) SetToBag({x})

(***************************************************************************)
(* utils and text helpers                                                  *)
(***************************************************************************)
\* String.prototype.trim on a text given as its characters
RECURSIVE TrimLeft(_)
TrimLeft(t) ==
  IF t # <<>> /\ Head(t) = " " THEN TrimLeft(Tail(t)) ELSE t

RECURSIVE TrimRight(_)
TrimRight(t) ==
  IF t # <<>> /\ t[Len(t)] = " " THEN TrimRight(SubSeq(t, 1, Len(t) - 1)) ELSE t

Trim(t) == TrimRight(TrimLeft(t))

(***************************************************************************)
(* The workflow state                                                      *)
(***************************************************************************)
InitialState ==
  [ inputText            |-> <<>>,
    meshTerms            |-> <<>>,
    hitCount             |-> None,
    isCounting           |-> FALSE,
    searchResults        |-> <<>>,
    selectedArticleIds   |-> {},
    detailedAnalyses     |-> <<>>,
    finalReview          |-> None,
    isLoading            |-> FALSE,
    error                |-> None,
    simpleAnalysisResult |-> None ]

InitIn(envs) ==
  /\ state = InitialState
  /\ timers = EmptyBag
  /\ cleanup = None
  /\ counts = EmptyBag
  /\ ops = EmptyBag
  /\ apiKey \in BOOLEAN
  /\ currentYear \in Years
  /\ env \in envs

Init == InitIn(Envs)

(***************************************************************************)
(* The live hit count effect, run after a commit that stored a new         *)
(* meshTerms array: first the cleanup the previous run returned, which     *)
(* clears that run's timer (nothing, when it has fired), then the effect.  *)
(***************************************************************************)
\* the else branch: setState(prev => ({ ...prev, hitCount: null }))
EffectState(s) ==
  IF Len(s.meshTerms) > 0 THEN s ELSE [s EXCEPT !.hitCount = None]

\* return () => clearTimeout(timer), run before the next effect
Cleared ==
  IF cleanup # None /\ BagIn(cleanup[1], timers)
  THEN Remove(timers, cleanup[1])
  ELSE timers

\* the effect without the cleanup it returns: earlier timers stay pending
CommitTermsWithoutCleanup(s) ==
  /\ state' = EffectState(s)
  /\ IF Len(s.meshTerms) > 0
     THEN /\ timers' = Add(timers, s.meshTerms)
          /\ cleanup' = Some(s.meshTerms)
     ELSE /\ timers' = timers
          /\ cleanup' = None

\* a commit of s that stored a new meshTerms array
CommitTerms(s) ==
  /\ state' = EffectState(s)
  /\ IF Len(s.meshTerms) > 0
     THEN /\ timers' = Add(Cleared, s.meshTerms)
          /\ cleanup' = Some(s.meshTerms)
     ELSE /\ timers' = Cleared
          /\ cleanup' = None

(***************************************************************************)
(* pubmedService.constructQuery                                            *)
(***************************************************************************)
selectedTerms(terms) ==
  Filter(terms, {t \in Range(terms) : t.selected})

TermClause(t) ==
  "(\"" \o t.term \o "\"[MeSH Terms] OR \"" \o t.term \o "\"[Title/Abstract])"

RECURSIVE Join(_, _)
Join(parts, sep) ==
  IF parts = <<>> THEN ""
  ELSE IF Len(parts) = 1 THEN parts[1]
  ELSE parts[1] \o sep \o Join(Tail(parts), sep)

\* the clauses of all terms, selected or not
meshQueryOfAllTerms(terms) ==
  Join([i \in 1..Len(terms) |-> TermClause(terms[i])], " AND ")

meshQuery(terms) ==
  Join([i \in 1..Len(selectedTerms(terms)) |-> TermClause(selectedTerms(terms)[i])],
       " AND ")

dateQuery(year) ==
  "\"" \o ToString(year - 10) \o "/01/01\"[Date - Publication] : \"3000\"[Date - Publication]"

constructQuery(terms, year) ==
  IF Len(selectedTerms(terms)) = 0 THEN ""
  ELSE "(" \o meshQuery(terms) \o ") AND (" \o dateQuery(year) \o ")"

(***************************************************************************)
(* User events that complete without awaiting                              *)
(***************************************************************************)
\* textarea onChange
SetInputText(text) ==
  /\ state' = [state EXCEPT !.inputText = text]
  /\ UNCHANGED <<timers, cleanup, counts, ops, apiKey, currentYear, env>>

\* the error banner's Dismiss button
DismissError ==
  /\ state.error # None
  /\ state' = [state EXCEPT !.error = None]
  /\ UNCHANGED <<timers, cleanup, counts, ops, apiKey, currentYear, env>>

\* a reset that keeps the text typed
handleResetKeepingInput ==
  /\ CommitTerms([InitialState EXCEPT !.inputText = state.inputText])
  /\ UNCHANGED <<counts, ops, apiKey, currentYear, env>>

\* Reset All, confirmed in the dialog (a dismissed dialog changes nothing).
\* The button is never disabled; the loading overlay is drawn over the page
\* but takes no control out of use, so the events below stay possible
\* while isLoading is true.
handleReset ==
  /\ CommitTerms(InitialState)
  /\ UNCHANGED <<counts, ops, apiKey, currentYear, env>>

\* a checkbox that flips the flag of every term
toggleEveryMeSHTerm(index) ==
  /\ index \in 1..Len(state.meshTerms)
  /\ LET newTerms == [k \in 1..Len(state.meshTerms) |->
                        [state.meshTerms[k] EXCEPT !.selected = ~@]]
     IN  CommitTerms([state EXCEPT !.meshTerms = newTerms])
  /\ UNCHANGED <<counts, ops, apiKey, currentYear, env>>

\* a term's checkbox; section 2 is rendered when there are terms
toggleMeSHTerm(index) ==
  /\ index \in 1..Len(state.meshTerms)
  /\ LET newTerms == [state.meshTerms EXCEPT ![index].selected = ~@]
     IN  CommitTerms([state EXCEPT !.meshTerms = newTerms])
  /\ UNCHANGED <<counts, ops, apiKey, currentYear, env>>

\* a result card; section 3 renders one card per search result
toggleArticleSelection(uid) ==
  /\ \E k \in 1..Len(state.searchResults) : state.searchResults[k].uid = uid
  /\ LET newSet == IF uid \in state.selectedArticleIds
                   THEN state.selectedArticleIds \ {uid}
                   ELSE state.selectedArticleIds \cup {uid}
     IN  state' = [state EXCEPT !.selectedArticleIds = newSet]
  /\ UNCHANGED <<timers, cleanup, counts, ops, apiKey, currentYear, env>>

(***************************************************************************)
(* The debounce timer and the count request                                *)
(***************************************************************************)
\* the timer callback with a getPubMedHitCount that sends its request
\* whatever the query
TimerFireAlwaysRequesting(terms) ==
  /\ BagIn(terms, timers)
  /\ BagCardinality(counts) < MaxCounts
  /\ state' = [state EXCEPT !.isCounting = TRUE]
  /\ counts' = Add(counts, [query |-> constructQuery(terms, currentYear)])
  /\ timers' = Remove(timers, terms)
  /\ UNCHANGED <<cleanup, ops, apiKey, currentYear, env>>

\* the timer callback up to the await of getPubMedHitCount
TimerFire(terms) ==
  /\ BagIn(terms, timers)
  /\ LET fullQuery == constructQuery(terms, currentYear)
     IN  IF fullQuery = ""
         THEN \* getPubMedHitCount returns 0 without a request
              /\ state' = [state EXCEPT !.hitCount = Some(0), !.isCounting = FALSE]
              /\ counts' = counts
         ELSE /\ BagCardinality(counts) < MaxCounts
              /\ state' = [state EXCEPT !.isCounting = TRUE]
              /\ counts' = Add(counts, [query |-> fullQuery])
  /\ timers' = Remove(timers, terms)
  /\ UNCHANGED <<cleanup, ops, apiKey, currentYear, env>>

\* the response to the count request: OK with a count in its body, OK
\* without one, not OK, a rejected fetch, or a body that is no JSON
CountReplies ==
  {[status |-> "ok", count |-> Some(total)] : total \in Totals}
    \cup {[status |-> "notOk", count |-> None]}
    \cup (IF env.degenerate
          THEN {[status |-> st, count |-> None] : st \in {"ok", "rejected", "unparsable"}}
          ELSE {})

\* getPubMedHitCount from the response on: parseInt(count || "0"), and 0 from
\* its catch block
getPubMedHitCount(reply) ==
  IF reply.status = "ok" /\ reply.count # None THEN reply.count[1] ELSE 0

\* a continuation that publishes the count and leaves isCounting as it is
CountReturnStillCounting(request, reply) ==
  /\ BagIn(request, counts)
  /\ state' = [state EXCEPT !.hitCount = Some(getPubMedHitCount(reply))]
  /\ counts' = Remove(counts, request)
  /\ UNCHANGED <<timers, cleanup, ops, apiKey, currentYear, env>>

\* the continuation after the await: the result is published
CountReturn(request, reply) ==
  /\ BagIn(request, counts)
  /\ state' = [state EXCEPT !.hitCount = Some(getPubMedHitCount(reply)),
                            !.isCounting = FALSE]
  /\ counts' = Remove(counts, request)
  /\ UNCHANGED <<timers, cleanup, ops, apiKey, currentYear, env>>

(***************************************************************************)
(* Stage operations.  An operation suspended at an await is a record in    *)
(* ops: its kind, the call it awaits (pc) and the locals it resumes with.  *)
(* Whatever runs between two awaits is one step.                           *)
(***************************************************************************)
Op(kind, pc) ==
  [ kind      |-> kind,    \* the handler
    pc        |-> pc,      \* the call awaited
    inputText |-> <<>>,    \* extractMeSHTerms: its argument
    idList    |-> <<>>,    \* searchPubMedWithMeSH: the ids resolved
    articles  |-> <<>>,    \* handleSearch: articles; handleAnalyzeSelected: selectedArticles
    i         |-> 0,       \* handleAnalyzeSelected: the loop index, from 1
    analyses  |-> <<>> ]   \* handleAnalyzeSelected: analyses

\* a catch block that stores the error and leaves isLoading as it is
FailedStillLoading(s, message) ==
  [s EXCEPT !.error = Some(message)]

\* the catch block of every stage handler
Failed(s, message) ==
  [s EXCEPT !.isLoading = FALSE, !.error = Some(message)]

\* the message of the error a rejected fetch or SDK call carries
TransportError == "Failed to fetch"

(***************************************************************************)
(* Step 1: handleExtractMeSH and geminiService.extractMeSHTerms            *)
(***************************************************************************)
ExtractButtonEnabled ==
  ~state.isLoading /\ state.inputText # <<>>

\* String.prototype.split(' ') on a text given as its characters
RECURSIVE Split(_)
Split(t) ==
  IF t = <<>> THEN <<"">>
  ELSE IF Head(t) = " " THEN <<"">> \o Split(Tail(t))
  ELSE LET rest == Split(Tail(t))
       IN  <<Head(t) \o rest[1]>> \o Tail(rest)

\* terms.map(term => ({ term, selected: true }))
AsTerms(names) ==
  [k \in 1..Len(names) |-> [term |-> names[k], selected |-> TRUE]]

\* the catch block of extractMeSHTerms
FallbackTerms(inputText) ==
  LET tokens == Split(inputText)
  IN  AsTerms(SubSeq(tokens, 1, IF Len(tokens) < 5 THEN Len(tokens) ELSE 5))

\* what the oracle answers to an extraction request: an array of strings,
\* or nothing usable (a rejected call, a text that is no JSON array)
ExtractReplies ==
  {[ok |-> TRUE, terms |-> names] : names \in env.termLists}
    \cup (IF env.extractFails THEN {[ok |-> FALSE, terms |-> <<>>]} ELSE {})

handleExtractMeSH ==
  /\ ExtractButtonEnabled
  /\ Trim(state.inputText) # <<>>
  /\ LET s1 == [state EXCEPT !.isLoading = TRUE,
                             !.error = None,
                             !.simpleAnalysisResult = None]
     IN  IF ~apiKey
         THEN /\ state' = Failed(s1, "API Key is missing.")
              /\ ops' = ops
         ELSE /\ BagCardinality(ops) < MaxOps
              /\ state' = s1
              /\ ops' = Add(ops, [Op("extract", "generateContent")
                                    EXCEPT !.inputText = state.inputText])
  /\ UNCHANGED <<timers, cleanup, counts, apiKey, currentYear, env>>

ExtractCommit(s, terms) ==
  [s EXCEPT !.meshTerms = terms, !.isLoading = FALSE]

ExtractReturn(op, reply) ==
  /\ BagIn(op, ops)
  /\ op.kind = "extract"
  /\ LET terms == IF reply.ok THEN AsTerms(reply.terms)
                  ELSE FallbackTerms(op.inputText)
     IN  CommitTerms(ExtractCommit(state, terms))
  /\ ops' = Remove(ops, op)
  /\ UNCHANGED <<counts, apiKey, currentYear, env>>

(***************************************************************************)
(* Step 1 alternative: handleDirectAnalysis and analyzeMedicalText         *)
(***************************************************************************)
DirectButtonEnabled ==
  ~state.isLoading /\ state.inputText # <<>>

\* response.text || "", or a rejected call
DirectReplies ==
  {[ok |-> TRUE, text |-> "Direct analysis"], [ok |-> FALSE, text |-> ""]}
    \cup (IF env.degenerate THEN {[ok |-> TRUE, text |-> ""]} ELSE {})

handleDirectAnalysis ==
  /\ DirectButtonEnabled
  /\ Trim(state.inputText) # <<>>
  /\ BagCardinality(ops) < MaxOps
  /\ CommitTerms([state EXCEPT !.isLoading = TRUE,
                               !.error = None,
                               !.meshTerms = <<>>,
                               !.searchResults = <<>>])
  /\ ops' = Add(ops, Op("direct", "generateContent"))
  /\ UNCHANGED <<counts, apiKey, currentYear, env>>

DirectReturn(op, reply) ==
  /\ BagIn(op, ops)
  /\ op.kind = "direct"
  /\ state' = IF reply.ok
              THEN [state EXCEPT !.simpleAnalysisResult = Some(reply.text),
                                 !.isLoading = FALSE]
              ELSE Failed(state, TransportError)
  /\ ops' = Remove(ops, op)
  /\ UNCHANGED <<timers, cleanup, counts, apiKey, currentYear, env>>

(***************************************************************************)
(* Step 2 -> 3: handleSearch, pubmedService.searchPubMedWithMeSH and       *)
(* geminiService.translateTitlesToJapanese                                 *)
(***************************************************************************)
\* Get Articles with disabled={state.isLoading} alone
SearchButtonEnabledWhileIdle ==
  /\ Len(state.meshTerms) > 0
  /\ ~state.isLoading

\* Get Articles, in section 2, rendered when there are terms
SearchButtonEnabled ==
  /\ Len(state.meshTerms) > 0
  /\ ~state.isLoading
  /\ state.hitCount # None
  /\ state.hitCount # Some(0)

TitleOf(id) == "Title " \o id

\* String.prototype.trim on a string
WhiteSpace == {" ", "\n"}

RECURSIVE TrimText(_)
TrimText(s) ==
  IF Len(s) > 0 /\ SubSeq(s, 1, 1) \in WhiteSpace
  THEN TrimText(SubSeq(s, 2, Len(s)))
  ELSE IF Len(s) > 0 /\ SubSeq(s, Len(s), Len(s)) \in WhiteSpace
  THEN TrimText(SubSeq(s, 1, Len(s) - 1))
  ELSE s

\* element?.textContent || fallback, the element given as a nullable text
TextOr(element, fallback) ==
  IF element = None \/ element = Some("") THEN fallback ELSE element[1]

\* a PubmedArticle node of an efetch document, by the elements
\* fetchArticleDetails looks for: the texts of the first PMID, ArticleTitle
\* and Title, the AbstractText elements with their Label, the Year and
\* Month of the first PubDate, the Author elements of the first AuthorList
\* and the Citation of each Reference of the first ReferenceList
RecordOf(id) ==
  [ pmid          |-> Some(id),
    title         |-> Some(TitleOf(id)),
    abstractTexts |-> <<[label |-> None, val |-> "Abstract " \o id]>>,
    journal       |-> Some("Journal"),
    pubDate       |-> Some([year |-> Some("2020"), month |-> Some("Jan")]),
    authorList    |-> Some(<<[lastName |-> Some("Doe"), initials |-> Some("J")]>>),
    referenceList |-> None ]

\* the limits of the two loops
AuthorsShown == 5
ReferencesKept == 10

Min(a, b) == IF a < b THEN a ELSE b

\* the abstract loop: one line per AbstractText, with its label if it has one
RECURSIVE AbstractOf(_)
AbstractOf(abstractTexts) ==
  IF abstractTexts = <<>> THEN ""
  ELSE LET t == Head(abstractTexts)
       IN  (IF t.label = None \/ t.label = Some("")
            THEN t.val \o "\n"
            ELSE "**" \o t.label[1] \o "**: " \o t.val \o "\n")
             \o AbstractOf(Tail(abstractTexts))

\* the authors loop: the first five names, then "et al." if there are more
AuthorsOf(authorList) ==
  IF authorList = None THEN <<>>
  ELSE LET authorNodes == authorList[1]
           names == [k \in 1..Min(Len(authorNodes), AuthorsShown) |->
                       TextOr(authorNodes[k].lastName, "") \o " "
                         \o TextOr(authorNodes[k].initials, "")]
       IN  IF Len(authorNodes) > AuthorsShown THEN Append(names, "et al.") ELSE names

\* the citations found among the Reference elements given
RECURSIVE CitationsOf(_)
CitationsOf(refNodes) ==
  IF refNodes = <<>> THEN <<>>
  ELSE (IF TextOr(Head(refNodes), "") = "" THEN <<>> ELSE <<Head(refNodes)[1]>>)
         \o CitationsOf(Tail(refNodes))

\* the references loop over the first ten Reference elements, and
\* references.length > 0 ? references : undefined
ReferencesOf(referenceList) ==
  IF referenceList = None THEN None
  ELSE LET refNodes == referenceList[1]
           references == CitationsOf(SubSeq(refNodes, 1, Min(Len(refNodes), ReferencesKept)))
       IN  IF Len(references) > 0 THEN Some(references) ELSE None

\* a parser whose loops have no limit and that keeps an empty reference
\* list
ParseArticleWithoutLimits(node) ==
  LET uid == TextOr(node.pmid, "")
      year == IF node.pubDate = None THEN "" ELSE TextOr(node.pubDate[1].year, "")
      month == IF node.pubDate = None THEN "" ELSE TextOr(node.pubDate[1].month, "")
  IN  [ uid             |-> uid,
        title           |-> TextOr(node.title, "Untitled"),
        abstract        |-> TrimText(AbstractOf(node.abstractTexts)),
        journal         |-> TextOr(node.journal, ""),
        pubDate         |-> TrimText(year \o " " \o month),
        authors         |-> IF node.authorList = None THEN <<>>
                            ELSE [k \in 1..Len(node.authorList[1]) |->
                                    TextOr(node.authorList[1][k].lastName, "") \o " "
                                      \o TextOr(node.authorList[1][k].initials, "")],
        url             |-> "https://pubmed.ncbi.nlm.nih.gov/" \o uid \o "/",
        references      |-> IF node.referenceList = None THEN None
                            ELSE Some(CitationsOf(node.referenceList[1])),
        translatedTitle |-> None ]

\* fetchArticleDetails, one PubmedArticle node
ParseArticle(node) ==
  LET uid == TextOr(node.pmid, "")
      year == IF node.pubDate = None THEN "" ELSE TextOr(node.pubDate[1].year, "")
      month == IF node.pubDate = None THEN "" ELSE TextOr(node.pubDate[1].month, "")
  IN  [ uid             |-> uid,
        title           |-> TextOr(node.title, "Untitled"),
        abstract        |-> TrimText(AbstractOf(node.abstractTexts)),
        journal         |-> TextOr(node.journal, ""),
        pubDate         |-> TrimText(year \o " " \o month),
        authors         |-> AuthorsOf(node.authorList),
        url             |-> "https://pubmed.ncbi.nlm.nih.gov/" \o uid \o "/",
        references      |-> ReferencesOf(node.referenceList),
        translatedTitle |-> None ]

\* the esearch response: not OK or rejected, or an id list
Failures == {"notOk"} \cup (IF env.degenerate THEN {"rejected"} ELSE {})

EsearchReplies ==
  {[status |-> "ok", idList |-> ids] : ids \in env.idLists}
    \cup {[status |-> st, idList |-> <<>>] : st \in Failures}

\* a PubmedArticle node with none of the elements looked for
BareRecord ==
  [ pmid          |-> None,
    title         |-> None,
    abstractTexts |-> <<>>,
    journal       |-> None,
    pubDate       |-> None,
    authorList    |-> None,
    referenceList |-> None ]

\* the Author elements of a list of n: the first without Initials
AuthorNodes(n) ==
  [k \in 1..n |-> [lastName |-> Some("L" \o ToString(k)),
                   initials |-> IF k = 1 THEN None ELSE Some("I")]]

\* the Reference elements of a list of n: the second without Citation
ReferenceNodes(n) ==
  [k \in 1..n |-> IF k = 2 THEN None ELSE Some("Ref " \o ToString(k))]

\* the records an efetch document can hold.  Records without lists: each
\* of the text elements is there or not
TextNodes ==
  [ pmid          : {None, Some("1")},
    title         : {None, Some(TitleOf("1"))},
    abstractTexts : {<<>>,
                     <<[label |-> None, val |-> "text"]>>,
                     <<[label |-> Some("AIM"), val |-> "aim"], [label |-> None, val |-> ""]>>},
    journal       : {None, Some("Journal")},
    pubDate       : {None} \cup {Some(d) : d \in [year : {None, Some("2020")},
                                                  month : {None, Some("Jan")}]},
    authorList    : {None},
    referenceList : {None} ]

\* the record of an id with lists: absent, empty, short, at their limit or
\* beyond it, or a reference list without a citation
ListNodes ==
  {[RecordOf("1") EXCEPT !.authorList = authorList, !.referenceList = referenceList] :
     authorList \in {None} \cup {Some(AuthorNodes(n)) :
                       n \in {0, 1, AuthorsShown, AuthorsShown + 1, MaxAuthorNodes}},
     referenceList \in {None, Some(<<None>>)}
                         \cup {Some(ReferenceNodes(n)) :
                                 n \in {0, 1, ReferencesKept, ReferencesKept + 1, MaxReferenceNodes}}}

Nodes == TextNodes \cup ListNodes

\* a record with every element, its lists beyond their limits
CrowdedRecord ==
  [ RecordOf("2") EXCEPT !.authorList = Some(AuthorNodes(MaxAuthorNodes)),
                         !.referenceList = Some(ReferenceNodes(MaxReferenceNodes)) ]

\* the batches of an efetch document: one record of any kind, or up to
\* MaxBatch records, each bare, plain or crowded
Batches ==
  {<<node>> : node \in Nodes}
    \cup UNION {[1..n -> {BareRecord, RecordOf("1"), CrowdedRecord}] : n \in 2..MaxBatch}

\* the efetch response: not OK or rejected, or the records of the ids asked
\* for, or as many records without their elements, or a document without
\* PubmedArticle nodes, or any batch of records
EfetchReplies(idList) ==
  {[status |-> "ok", nodes |-> [k \in 1..Len(idList) |-> RecordOf(idList[k])]]}
    \cup (IF env.bareRecords
          THEN {[status |-> "ok", nodes |-> [k \in 1..Len(idList) |-> BareRecord]]}
          ELSE {})
    \cup (IF env.anyRecords
          THEN {[status |-> "ok", nodes |-> batch] : batch \in Batches}
          ELSE {})
    \cup (IF env.degenerate THEN {[status |-> "ok", nodes |-> <<>>]} ELSE {})
    \cup {[status |-> st, nodes |-> <<>>] : st \in Failures}

Translated(title) == "JA " \o title

\* a value translateTitlesToJapanese resolves to: JSON null, or a value
\* whose entries at 0, 1, ... are items (none for {}, [] or a number)
Parsed(items) == [null |-> FALSE, items |-> items]
ParsedNull == [null |-> TRUE, items |-> <<>>]

\* what translateTitlesToJapanese resolves to once the oracle has answered:
\* JSON.parse of the text, which is an array of the length asked for
\* (full), a shorter or a longer one, one with an empty string, a value
\* without entries (none) or null; or the titles themselves when the call
\* is rejected or the text does not parse
TranslateResults(titles) ==
  LET full == [k \in 1..Len(titles) |-> Translated(titles[k])]
      shaped(shape) ==
        CASE shape = "full"   -> Parsed(full)
          [] shape = "short"  -> Parsed(SubSeq(full, 1, Len(titles) - 1))
          [] shape = "long"   -> Parsed(Append(full, Translated("")))
          [] shape = "blank"  -> Parsed([full EXCEPT ![1] = ""])
          [] shape = "none"   -> Parsed(<<>>)
          [] shape = "titles" -> Parsed(titles)
          [] shape = "null"   -> ParsedNull
  IN  {shaped(shape) : shape \in env.translations}

\* the map without its fallback: translatedTitle: translatedTitles[i]
articlesWithTranslationOnly(articles, translatedTitles) ==
  [k \in 1..Len(articles) |->
     [articles[k] EXCEPT !.translatedTitle =
        IF k <= Len(translatedTitles) THEN Some(translatedTitles[k]) ELSE None]]

\* articles.map((a, i) => ({...a, translatedTitle: translatedTitles[i] || a.title}))
articlesWithJapanese(articles, translatedTitles) ==
  [k \in 1..Len(articles) |->
     [articles[k] EXCEPT !.translatedTitle =
        Some(IF k <= Len(translatedTitles) /\ translatedTitles[k] # ""
             THEN translatedTitles[k]
             ELSE articles[k].title)]]

SearchCommit(s, articles) ==
  [s EXCEPT !.searchResults = articles, !.isLoading = FALSE]

handleSearch ==
  /\ SearchButtonEnabled
  /\ state.hitCount # Some(0)
  /\ LET s1 == [state EXCEPT !.isLoading = TRUE, !.error = None]
     IN  IF constructQuery(state.meshTerms, currentYear) = ""
         THEN /\ state' = Failed(s1, "No MeSH terms selected.")
              /\ ops' = ops
         ELSE /\ BagCardinality(ops) < MaxOps
              /\ state' = s1
              /\ ops' = Add(ops, Op("search", "esearch"))
  /\ UNCHANGED <<timers, cleanup, counts, apiKey, currentYear, env>>

\* handleSearch from the articles on: translate, or commit at once when
\* translateTitlesToJapanese returns its argument without a request
SearchContinue(op, articles) ==
  IF ~apiKey \/ Len(articles) = 0
  THEN /\ state' = SearchCommit(state, articlesWithJapanese(articles,
                                   [k \in 1..Len(articles) |-> articles[k].title]))
       /\ ops' = Remove(ops, op)
  ELSE /\ state' = state
       /\ ops' = Add(Remove(ops, op),
                     [op EXCEPT !.pc = "translate", !.articles = articles])

\* searchPubMedWithMeSH without its test of the id list: the details are
\* fetched whatever the list
EsearchReturnAlwaysFetching(op, reply) ==
  /\ BagIn(op, ops)
  /\ op.kind = "search" /\ op.pc = "esearch"
  /\ CASE reply.status = "notOk" ->
            /\ state' = Failed(state, "PubMed Search Failed")
            /\ ops' = Remove(ops, op)
       [] reply.status = "rejected" ->
            /\ state' = Failed(state, TransportError)
            /\ ops' = Remove(ops, op)
       [] OTHER ->
            /\ state' = state
            /\ ops' = Add(Remove(ops, op),
                          [op EXCEPT !.pc = "efetch", !.idList = reply.idList])
  /\ UNCHANGED <<timers, cleanup, counts, apiKey, currentYear, env>>

EsearchReturn(op, reply) ==
  /\ BagIn(op, ops)
  /\ op.kind = "search" /\ op.pc = "esearch"
  /\ CASE reply.status = "notOk" ->
            /\ state' = Failed(state, "PubMed Search Failed")
            /\ ops' = Remove(ops, op)
       [] reply.status = "rejected" ->
            /\ state' = Failed(state, TransportError)
            /\ ops' = Remove(ops, op)
       [] reply.status = "ok" /\ Len(reply.idList) = 0 ->
            SearchContinue(op, <<>>)
       [] OTHER ->
            /\ state' = state
            /\ ops' = Add(Remove(ops, op),
                          [op EXCEPT !.pc = "efetch", !.idList = reply.idList])
  /\ UNCHANGED <<timers, cleanup, counts, apiKey, currentYear, env>>

\* a handler whose catch block also drops the articles on display
EfetchReturnDroppingResults(op, reply) ==
  /\ BagIn(op, ops)
  /\ op.kind = "search" /\ op.pc = "efetch"
  /\ CASE reply.status = "notOk" ->
            /\ state' = [Failed(state, "PubMed Fetch Failed") EXCEPT !.searchResults = <<>>]
            /\ ops' = Remove(ops, op)
       [] reply.status = "rejected" ->
            /\ state' = [Failed(state, TransportError) EXCEPT !.searchResults = <<>>]
            /\ ops' = Remove(ops, op)
       [] OTHER ->
            SearchContinue(op, [k \in 1..Len(reply.nodes) |-> ParseArticle(reply.nodes[k])])
  /\ UNCHANGED <<timers, cleanup, counts, apiKey, currentYear, env>>

EfetchReturn(op, reply) ==
  /\ BagIn(op, ops)
  /\ op.kind = "search" /\ op.pc = "efetch"
  /\ CASE reply.status = "notOk" ->
            /\ state' = Failed(state, "PubMed Fetch Failed")
            /\ ops' = Remove(ops, op)
       [] reply.status = "rejected" ->
            /\ state' = Failed(state, TransportError)
            /\ ops' = Remove(ops, op)
       [] OTHER ->
            SearchContinue(op, [k \in 1..Len(reply.nodes) |-> ParseArticle(reply.nodes[k])])
  /\ UNCHANGED <<timers, cleanup, counts, apiKey, currentYear, env>>

\* reading translatedTitles[i] of null throws in the map callback
NullReadError == "Cannot read properties of null (reading '0')"

TranslateReturn(op, translatedTitles) ==
  /\ BagIn(op, ops)
  /\ op.kind = "search" /\ op.pc = "translate"
  /\ state' = IF translatedTitles.null /\ Len(op.articles) > 0
              THEN Failed(state, NullReadError)
              ELSE SearchCommit(state, articlesWithJapanese(op.articles,
                                                           translatedTitles.items))
  /\ ops' = Remove(ops, op)
  /\ UNCHANGED <<timers, cleanup, counts, apiKey, currentYear, env>>

(***************************************************************************)
(* Step 3 -> 4: handleAnalyzeSelected, geminiService.analyzeArticleDeeply  *)
(* and generateFinalReview                                                 *)
(***************************************************************************)
\* Analyze n Papers, in section 3, rendered when there are results
AnalyzeButtonEnabled ==
  /\ Len(state.searchResults) > 0
  /\ state.selectedArticleIds # {}

\* state.searchResults.filter(a => state.selectedArticleIds.has(a.uid))
selectedArticles(s) ==
  Filter(s.searchResults,
         {a \in Range(s.searchResults) : a.uid \in s.selectedArticleIds})

AnalysisOf(article) == "Analysis of " \o article.uid

\* the answer to an analysis request: a text, no text, or a rejected call
AnalyzeReplies(article) ==
  {[ok |-> TRUE, text |-> AnalysisOf(article)], [ok |-> FALSE, text |-> ""]}
    \cup (IF env.degenerate THEN {[ok |-> TRUE, text |-> ""]} ELSE {})

\* the answer to a synthesis request
SynthesizeReplies ==
  {[ok |-> TRUE, text |-> "Review"], [ok |-> FALSE, text |-> ""]}
    \cup (IF env.degenerate THEN {[ok |-> TRUE, text |-> ""]} ELSE {})

\* analyses.push({ pmid: article.uid, originalArticle: article, analysis: analysisText })
Push(analyses, article, analysisText) ==
  Append(analyses, [pmid |-> article.uid, originalArticle |-> article,
                    analysis |-> analysisText])

\* a commit that stores the analyses and leaves the review for later
AnalyzeCommitWithoutReview(s, analyses, review) ==
  [s EXCEPT !.detailedAnalyses = analyses, !.isLoading = FALSE]

AnalyzeCommit(s, analyses, review) ==
  [s EXCEPT !.detailedAnalyses = analyses,
            !.finalReview = Some(review),
            !.isLoading = FALSE]

\* both services return this text without a request when there is no key
NoKeyText == "API Key missing."

handleAnalyzeSelected ==
  /\ AnalyzeButtonEnabled
  /\ Len(selectedArticles(state)) # 0
  /\ LET s1 == [state EXCEPT !.isLoading = TRUE, !.error = None]
         selected == selectedArticles(state)
     IN  IF ~apiKey
         THEN /\ state' = AnalyzeCommit(s1,
                            [k \in 1..Len(selected) |->
                               [pmid |-> selected[k].uid,
                                originalArticle |-> selected[k],
                                analysis |-> NoKeyText]],
                            NoKeyText)
              /\ ops' = ops
         ELSE /\ BagCardinality(ops) < MaxOps
              /\ state' = s1
              /\ ops' = Add(ops, [Op("analyze", "analyze")
                                    EXCEPT !.articles = selected, !.i = 1])
  /\ UNCHANGED <<timers, cleanup, counts, apiKey, currentYear, env>>

\* a catch block that stores the analyses collected before the failure
AnalyzeFailedKeepingAnalyses(op, message) ==
  /\ state' = [Failed(state, message) EXCEPT !.detailedAnalyses = op.analyses]
  /\ ops' = Remove(ops, op)

\* the catch block of handleAnalyzeSelected: the run ends, analyses is dropped
AnalyzeFailed(op, message) ==
  /\ state' = Failed(state, message)
  /\ ops' = Remove(ops, op)

\* a loop that leaves after its first pass: synthesis follows the first
\* analysis whatever the number of articles
AnalyzeNextLeavingEarly(op, analyses) ==
  /\ state' = state
  /\ ops' = Add(Remove(ops, op),
                [op EXCEPT !.pc = "synthesize", !.analyses = analyses])

\* the loop after an analysis has resolved: the next request, or synthesis
AnalyzeNext(op, analyses) ==
  /\ state' = state
  /\ ops' = Add(Remove(ops, op),
                IF op.i < Len(op.articles)
                THEN [op EXCEPT !.i = op.i + 1, !.analyses = analyses]
                ELSE [op EXCEPT !.pc = "synthesize", !.analyses = analyses])

\* a loop body that pushes every text under the run's first article
AnalyzeReturnUnderFirstArticle(op, reply) ==
  /\ BagIn(op, ops)
  /\ op.kind = "analyze" /\ op.pc = "analyze"
  /\ reply \in AnalyzeReplies(op.articles[op.i])
  /\ IF reply.ok
     THEN AnalyzeNext(op, Push(op.analyses, op.articles[1],
                               IF reply.text = "" THEN "Analysis failed."
                               ELSE reply.text))
     ELSE AnalyzeFailed(op, TransportError)
  /\ UNCHANGED <<timers, cleanup, counts, apiKey, currentYear, env>>

AnalyzeReturn(op, reply) ==
  /\ BagIn(op, ops)
  /\ op.kind = "analyze" /\ op.pc = "analyze"
  /\ reply \in AnalyzeReplies(op.articles[op.i])
  /\ IF reply.ok
     THEN AnalyzeNext(op, Push(op.analyses, op.articles[op.i],
                               IF reply.text = "" THEN "Analysis failed."
                               ELSE reply.text))
     ELSE AnalyzeFailed(op, TransportError)
  /\ UNCHANGED <<timers, cleanup, counts, apiKey, currentYear, env>>

SynthesizeReturn(op, reply) ==
  /\ BagIn(op, ops)
  /\ op.kind = "analyze" /\ op.pc = "synthesize"
  /\ IF reply.ok
     THEN /\ state' = AnalyzeCommit(state, op.analyses,
                         IF reply.text = "" THEN "Review generation failed."
                         ELSE reply.text)
          /\ ops' = Remove(ops, op)
     ELSE AnalyzeFailed(op, TransportError)
  /\ UNCHANGED <<timers, cleanup, counts, apiKey, currentYear, env>>

(***************************************************************************)
(* The program                                                             *)
(***************************************************************************)
Uids == {"", "1", "2"}

AllAnalyzeReplies ==
  {[ok |-> ok, text |-> text] :
     ok \in BOOLEAN, text \in {""} \cup {"Analysis of " \o id : id \in Uids}}

Next ==
  \/ \E text \in Texts : SetInputText(text)
  \/ DismissError
  \/ handleReset
  \/ \E index \in 1..Len(state.meshTerms) : toggleMeSHTerm(index)
  \/ \E uid \in Uids : toggleArticleSelection(uid)
  \/ \E terms \in BagToSet(timers) : TimerFire(terms)
  \/ \E request \in BagToSet(counts), reply \in CountReplies : CountReturn(request, reply)
  \/ handleExtractMeSH
  \/ \E op \in BagToSet(ops), reply \in ExtractReplies : ExtractReturn(op, reply)
  \/ handleDirectAnalysis
  \/ \E op \in BagToSet(ops), reply \in DirectReplies : DirectReturn(op, reply)
  \/ handleSearch
  \/ \E op \in BagToSet(ops), reply \in EsearchReplies : EsearchReturn(op, reply)
  \/ \E op \in BagToSet(ops) : \E reply \in EfetchReplies(op.idList) : EfetchReturn(op, reply)
  \/ \E op \in BagToSet(ops) :
       \E translatedTitles \in TranslateResults([k \in 1..Len(op.articles) |-> op.articles[k].title]) :
         TranslateReturn(op, translatedTitles)
  \/ handleAnalyzeSelected
  \/ \E op \in BagToSet(ops), reply \in AllAnalyzeReplies : AnalyzeReturn(op, reply)
  \/ \E op \in BagToSet(ops), reply \in SynthesizeReplies : SynthesizeReturn(op, reply)

Spec == Init /\ [][Next]_vars

\* the program with one kind of backing services
SpecTerms == InitIn({EnvTerms}) /\ [][Next]_vars
SpecDocs == InitIn({EnvDocs}) /\ [][Next]_vars

\* the program from Get Articles on: a text was typed, one term extracted
\* and its count published; the user goes on to search, select and analyze
InitResults ==
  /\ state = [InitialState EXCEPT !.inputText = <<"x">>,
                                  !.meshTerms = AsTerms(<<"a">>),
                                  !.hitCount = Some(1)]
  /\ timers = EmptyBag
  /\ cleanup = Some(AsTerms(<<"a">>))
  /\ counts = EmptyBag
  /\ ops = EmptyBag
  /\ apiKey = TRUE    \* without a key no term is ever extracted
  /\ currentYear \in Years
  /\ env = EnvResults

NextResults ==
  \/ DismissError
  \/ \E uid \in Uids : toggleArticleSelection(uid)
  \/ handleSearch
  \/ \E op \in BagToSet(ops), reply \in EsearchReplies : EsearchReturn(op, reply)
  \/ \E op \in BagToSet(ops) : \E reply \in EfetchReplies(op.idList) : EfetchReturn(op, reply)
  \/ \E op \in BagToSet(ops) :
       \E translatedTitles \in TranslateResults([k \in 1..Len(op.articles) |-> op.articles[k].title]) :
         TranslateReturn(op, translatedTitles)
  \/ handleAnalyzeSelected
  \/ \E op \in BagToSet(ops), reply \in AllAnalyzeReplies : AnalyzeReturn(op, reply)
  \/ \E op \in BagToSet(ops), reply \in SynthesizeReplies : SynthesizeReturn(op, reply)

SpecResults == InitResults /\ [][NextResults]_vars

\* the search on its own, from the same state with the services of EnvDocs
\* and EnvDegenerate: the user checks and unchecks the term and searches
InitSearch ==
  /\ state = [InitialState EXCEPT !.inputText = <<"x">>,
                                  !.meshTerms = AsTerms(<<"a">>),
                                  !.hitCount = Some(1)]
  /\ timers = EmptyBag
  /\ cleanup = Some(AsTerms(<<"a">>))
  /\ counts = EmptyBag
  /\ ops = EmptyBag
  /\ apiKey = TRUE
  /\ currentYear \in Years
  /\ env \in {EnvDocs, EnvDegenerate}

NextSearch ==
  \/ DismissError
  \/ \E index \in 1..Len(state.meshTerms) : toggleMeSHTerm(index)
  \/ \E terms \in BagToSet(timers) : TimerFire(terms)
  \/ \E request \in BagToSet(counts), reply \in CountReplies : CountReturn(request, reply)
  \/ handleSearch
  \/ \E op \in BagToSet(ops), reply \in EsearchReplies : EsearchReturn(op, reply)
  \/ \E op \in BagToSet(ops) : \E reply \in EfetchReplies(op.idList) : EfetchReturn(op, reply)
  \/ \E op \in BagToSet(ops) :
       \E translatedTitles \in TranslateResults([k \in 1..Len(op.articles) |-> op.articles[k].title]) :
         TranslateReturn(op, translatedTitles)

SpecSearch == InitSearch /\ [][NextSearch]_vars

\* the same with the services of EnvTerms: two terms are on display
InitSelect ==
  /\ state = [InitialState EXCEPT !.inputText = <<"x">>,
                                  !.meshTerms = AsTerms(<<"a", "b">>),
                                  !.hitCount = Some(1)]
  /\ timers = EmptyBag
  /\ cleanup = Some(AsTerms(<<"a", "b">>))
  /\ counts = EmptyBag
  /\ ops = EmptyBag
  /\ apiKey = TRUE
  /\ currentYear \in Years
  /\ env = EnvTerms

SpecSelect == InitSelect /\ [][NextSearch]_vars

\* fetchArticleDetails on its own: the details of two ids are being
\* fetched; the index answers with any batch, the titles are translated
InitParse ==
  /\ state = [InitialState EXCEPT !.inputText = <<"x">>,
                                  !.meshTerms = AsTerms(<<"a">>),
                                  !.hitCount = Some(1),
                                  !.isLoading = TRUE]
  /\ timers = EmptyBag
  /\ cleanup = Some(AsTerms(<<"a">>))
  /\ counts = EmptyBag
  /\ ops = SetToBag({[Op("search", "efetch") EXCEPT !.idList = <<"1", "2">>]})
  /\ apiKey = TRUE
  /\ currentYear \in Years
  /\ env = EnvParse

NextParse ==
  \/ DismissError
  \/ \E op \in BagToSet(ops) : \E reply \in EfetchReplies(op.idList) : EfetchReturn(op, reply)
  \/ \E op \in BagToSet(ops) :
       \E translatedTitles \in TranslateResults([k \in 1..Len(op.articles) |-> op.articles[k].title]) :
         TranslateReturn(op, translatedTitles)

SpecParse == InitParse /\ [][NextParse]_vars

\* the stage operations from the first to the last, a text being typed,
\* under the assumption that every call awaited settles: the response of
\* a request in flight arrives, whatever it is
InitBusy ==
  /\ state = [InitialState EXCEPT !.inputText = <<"x">>]
  /\ timers = EmptyBag
  /\ cleanup = None
  /\ counts = EmptyBag
  /\ ops = EmptyBag
  /\ apiKey \in BOOLEAN
  /\ currentYear \in Years
  /\ env = EnvBusy

CountSettles ==
  \E request \in BagToSet(counts), reply \in CountReplies : CountReturn(request, reply)
ExtractSettles ==
  \E op \in BagToSet(ops), reply \in ExtractReplies : ExtractReturn(op, reply)
DirectSettles ==
  \E op \in BagToSet(ops), reply \in DirectReplies : DirectReturn(op, reply)
EsearchSettles ==
  \E op \in BagToSet(ops), reply \in EsearchReplies : EsearchReturn(op, reply)
EfetchSettles ==
  \E op \in BagToSet(ops) : \E reply \in EfetchReplies(op.idList) : EfetchReturn(op, reply)
TranslateSettles ==
  \E op \in BagToSet(ops) :
    \E translatedTitles \in TranslateResults([k \in 1..Len(op.articles) |-> op.articles[k].title]) :
      TranslateReturn(op, translatedTitles)
AnalyzeSettles ==
  \E op \in BagToSet(ops), reply \in AllAnalyzeReplies : AnalyzeReturn(op, reply)
SynthesizeSettles ==
  \E op \in BagToSet(ops), reply \in SynthesizeReplies : SynthesizeReturn(op, reply)

NextBusy ==
  \/ handleReset
  \/ \E uid \in Uids : toggleArticleSelection(uid)
  \/ \E terms \in BagToSet(timers) : TimerFire(terms)
  \/ CountSettles
  \/ handleExtractMeSH
  \/ ExtractSettles
  \/ handleDirectAnalysis
  \/ DirectSettles
  \/ handleSearch
  \/ EsearchSettles
  \/ EfetchSettles
  \/ TranslateSettles
  \/ handleAnalyzeSelected
  \/ AnalyzeSettles
  \/ SynthesizeSettles

SpecBusy ==
  /\ InitBusy
  /\ [][NextBusy]_vars
  /\ WF_vars(ExtractSettles)
  /\ WF_vars(DirectSettles)
  /\ WF_vars(EsearchSettles)
  /\ WF_vars(EfetchSettles)
  /\ WF_vars(TranslateSettles)
  /\ WF_vars(AnalyzeSettles)
  /\ WF_vars(SynthesizeSettles)

\* the live count from the moment two terms are extracted: their timer is
\* pending, no count is published yet.  The user checks and unchecks
\* terms, extracts again and resets; a pending timer fires unless it is
\* cleared, and the response of a count request arrives
InitLive ==
  /\ state = [InitialState EXCEPT !.inputText = <<"x">>,
                                  !.meshTerms = AsTerms(<<"a", "b">>)]
  /\ timers = SetToBag({AsTerms(<<"a", "b">>)})
  /\ cleanup = Some(AsTerms(<<"a", "b">>))
  /\ counts = EmptyBag
  /\ ops = EmptyBag
  /\ apiKey = TRUE
  /\ currentYear \in Years
  /\ env = EnvTerms

TimerFires ==
  \E terms \in BagToSet(timers) : TimerFire(terms)

NextLive ==
  \/ handleReset
  \/ \E index \in 1..Len(state.meshTerms) : toggleMeSHTerm(index)
  \/ TimerFires
  \/ CountSettles
  \/ handleExtractMeSH
  \/ ExtractSettles

SpecLive ==
  /\ InitLive
  /\ [][NextLive]_vars
  /\ WF_vars(TimerFires)
  /\ WF_vars(CountSettles)

\* the analysis on its own: the two documents of a search are on display,
\* translated; the user selects among them, analyzes, and may reset
InitAnalyze ==
  /\ state = [InitialState EXCEPT
                !.inputText = <<"x">>,
                !.meshTerms = AsTerms(<<"a">>),
                !.hitCount = Some(1),
                !.searchResults =
                   articlesWithJapanese(
                     <<ParseArticle(RecordOf("1")), ParseArticle(RecordOf("2"))>>,
                     <<Translated(TitleOf("1")), Translated(TitleOf("2"))>>)]
  /\ timers = EmptyBag
  /\ cleanup = Some(AsTerms(<<"a">>))
  /\ counts = EmptyBag
  /\ ops = EmptyBag
  /\ apiKey = TRUE
  /\ currentYear \in Years
  /\ env = EnvDocs

NextAnalyze ==
  \/ DismissError
  \/ handleReset
  \/ \E uid \in Uids : toggleArticleSelection(uid)
  \/ handleAnalyzeSelected
  \/ \E op \in BagToSet(ops), reply \in AllAnalyzeReplies : AnalyzeReturn(op, reply)
  \/ \E op \in BagToSet(ops), reply \in SynthesizeReplies : SynthesizeReturn(op, reply)

SpecAnalyze == InitAnalyze /\ [][NextAnalyze]_vars

\* constructQuery and getPubMedHitCount on their own: any list of terms is
\* on display with its timer pending, in any year; the timer fires and the
\* count request is answered
TermNames == {"a", "b"}
TermLists ==
  UNION {[1..n -> [term : TermNames, selected : BOOLEAN]] : n \in 0..MaxTerms}
QueryYears == {1999, 2026}

InitQuery ==
  /\ \E terms \in TermLists :
       /\ state = [InitialState EXCEPT !.inputText = <<"x">>, !.meshTerms = terms]
       /\ timers = IF Len(terms) > 0 THEN SetToBag({terms}) ELSE EmptyBag
       /\ cleanup = IF Len(terms) > 0 THEN Some(terms) ELSE None
  /\ counts = EmptyBag
  /\ ops = EmptyBag
  /\ apiKey = TRUE
  /\ currentYear \in QueryYears
  /\ env = EnvDegenerate

NextQuery ==
  \/ \E terms \in BagToSet(timers) : TimerFire(terms)
  \/ \E request \in BagToSet(counts), reply \in CountReplies : CountReturn(request, reply)

SpecQuery == InitQuery /\ [][NextQuery]_vars

(***************************************************************************)
(* Steps by what they do to the calls in flight                            *)
(***************************************************************************)
\* a successful handleSearch stores its articles
SearchSucceeds ==
  \/ \E op \in BagToSet(ops) :
       \E translatedTitles \in TranslateResults([k \in 1..Len(op.articles) |-> op.articles[k].title]) :
         ~translatedTitles.null /\ TranslateReturn(op, translatedTitles)
  \/ \E op \in BagToSet(ops) :
       /\ ops' = Remove(ops, op)
       /\ \/ \E reply \in EsearchReplies : reply.status = "ok" /\ EsearchReturn(op, reply)
          \/ \E reply \in EfetchReplies(op.idList) : reply.status = "ok" /\ EfetchReturn(op, reply)

\* an awaited call of a stage operation or a count request settles
Settles ==
  \/ \E request \in BagToSet(counts), reply \in CountReplies : CountReturn(request, reply)
  \/ \E op \in BagToSet(ops), reply \in ExtractReplies : ExtractReturn(op, reply)
  \/ \E op \in BagToSet(ops), reply \in DirectReplies : DirectReturn(op, reply)
  \/ \E op \in BagToSet(ops), reply \in EsearchReplies : EsearchReturn(op, reply)
  \/ \E op \in BagToSet(ops) : \E reply \in EfetchReplies(op.idList) : EfetchReturn(op, reply)
  \/ \E op \in BagToSet(ops) :
       \E translatedTitles \in TranslateResults([k \in 1..Len(op.articles) |-> op.articles[k].title]) :
         TranslateReturn(op, translatedTitles)
  \/ \E op \in BagToSet(ops), reply \in AllAnalyzeReplies : AnalyzeReturn(op, reply)
  \/ \E op \in BagToSet(ops), reply \in SynthesizeReplies : SynthesizeReturn(op, reply)

\* handleSearch calls searchPubMedWithMeSH: a request goes out, or the call
\* throws for want of a query
SearchInvoked ==
  \/ \E op \in BagToSet(ops') :
       op.kind = "search" /\ op.pc = "esearch" /\ CopiesIn(op, ops') > CopiesIn(op, ops)
  \/ state'.error = Some("No MeSH terms selected.") /\ state'.error # state.error

\* an analysis or the synthesis of the run op is rejected
AnalysisRejected(op) ==
  \/ \E reply \in AnalyzeReplies(op.articles[op.i]) : ~reply.ok /\ AnalyzeReturn(op, reply)
  \/ \E reply \in SynthesizeReplies : ~reply.ok /\ SynthesizeReturn(op, reply)

(***************************************************************************)
(* Properties                                                              *)
(***************************************************************************)

\* C1: every id in selectedArticleIds is the uid of an article of
\* searchResults, in every state
C1_SelectionWithinResults ==
  state.selectedArticleIds \subseteq {a.uid : a \in Range(state.searchResults)}

\* C2: a count request that settles publishes its count only if it was made
\* for the term selection that is current when it settles
C2_NoStaleCount ==
  [][\A request \in BagToSet(counts) :
       (\E reply \in CountReplies : CountReturn(request, reply))
         => request.query = constructQuery(state.meshTerms, currentYear)]_vars

\* C3: at most one stage operation is in flight, and isLoading is true
\* while one is
C3_BusyWhileInFlight ==
  /\ BagCardinality(ops) <= 1
  /\ BagCardinality(ops) > 0 => state.isLoading

\* C4: when an analysis or the synthesis of a run fails, detailedAnalyses
\* and finalReview keep their values, the error is set, isLoading is false
\* and the run issues no further call; and detailedAnalyses only ever
\* changes to nothing or to one entry per article of a run, with a review
C4_AnalyzeAllOrNothing ==
  [][/\ \A op \in BagToSet(ops) :
          (op.kind = "analyze" /\ AnalysisRejected(op)) =>
             /\ state'.detailedAnalyses = state.detailedAnalyses
             /\ state'.finalReview = state.finalReview
             /\ state'.error # None
             /\ ~state'.isLoading
             /\ ops' = Remove(ops, op)
     /\ state'.detailedAnalyses # state.detailedAnalyses =>
          \/ state'.detailedAnalyses = <<>>
          \/ /\ state'.finalReview # None
             /\ \E articles \in {selectedArticles(state)} \cup {op.articles : op \in BagToSet(ops)} :
                  articles = [k \in 1..Len(state'.detailedAnalyses) |->
                                state'.detailedAnalyses[k].originalArticle]
    ]_vars

\* C4 happens: the run over both articles has failed, nothing of it is kept
C4_Witness ==
  /\ state.error = Some(TransportError)
  /\ Len(state.searchResults) = 2
  /\ Cardinality(state.selectedArticleIds) = 2
  /\ state.detailedAnalyses = <<>>
  /\ state.finalReview = None
  /\ ~state.isLoading
  /\ ops = EmptyBag

\* C5: once the state is the initial state, a call that settles leaves it
\* the initial state
C5_ResetDiscardsInFlight ==
  [][(state = InitialState /\ Settles) => state' = InitialState]_vars

\* C6: a step that changes the selected terms leaves hitCount null
C6_CountResetOnChange ==
  [][selectedTerms(state'.meshTerms) # selectedTerms(state.meshTerms)
       => state'.hitCount = None]_vars

\* C7: after a successful handleSearch has stored its articles,
\* detailedAnalyses is empty
C7_SearchClearsAnalyses ==
  [][SearchSucceeds => state'.detailedAnalyses = <<>>]_vars

\* C8: after handleExtractMeSH has stored its terms, searchResults,
\* selectedArticleIds and detailedAnalyses are empty and finalReview is null
C8_ExtractClearsDownstream ==
  [][(\E op \in BagToSet(ops), reply \in ExtractReplies : ExtractReturn(op, reply)) =>
       /\ state'.searchResults = <<>>
       /\ state'.selectedArticleIds = {}
       /\ state'.detailedAnalyses = <<>>
       /\ state'.finalReview = None]_vars

\* C9: handleSearch calls the search gateway only when hitCount is a
\* positive integer
C9_SearchOnlyWithHits ==
  [][SearchInvoked => (state.hitCount # None /\ state.hitCount[1] > 0)]_vars

\* C9 happens: a search is in flight and the hit count is positive
C9_Witness ==
  /\ \E op \in BagToSet(ops) : op.kind = "search" /\ op.pc = "esearch"
  /\ state.hitCount = Some(1)

\* C10: at most one debounce timer is pending and it is the one of the
\* current terms; a step that changes the terms issues no count request;
\* a count request is issued by the one pending timer, for the current
\* terms; and that timer, when it fires, issues one request (none when no
\* term is selected)
C10_Debounce ==
  [][/\ BagCardinality(timers') <= 1
     /\ \A terms \in BagToSet(timers') : terms = state'.meshTerms
     /\ state'.meshTerms # state.meshTerms => counts' = counts
     /\ \A request \in BagToSet(counts') :
          CopiesIn(request, counts') > CopiesIn(request, counts) =>
             /\ request.query = constructQuery(state.meshTerms, currentYear)
             /\ BagCardinality(counts') = BagCardinality(counts) + 1
             /\ timers # EmptyBag
             /\ timers' = EmptyBag
     /\ (timers # EmptyBag /\ timers' = EmptyBag /\ state'.meshTerms = state.meshTerms) =>
          counts' = IF constructQuery(state.meshTerms, currentYear) = "" THEN counts
                    ELSE Add(counts, [query |-> constructQuery(state.meshTerms, currentYear)])
    ]_vars

\* C10 happens: after a term was deselected, the one request in flight is
\* the request for the terms as they are now, and no timer is pending
C10_Witness ==
  /\ \E k \in 1..Len(state.meshTerms) : ~state.meshTerms[k].selected
  /\ BagCardinality(counts) = 1
  /\ \A request \in BagToSet(counts) :
       request.query = constructQuery(state.meshTerms, currentYear)
  /\ timers = EmptyBag

\* C11: handleReset yields the initial state from every state, with no
\* timer pending and no cleanup registered; applied to the initial state it
\* changes nothing
C11_ResetTotalIdempotent ==
  [][handleReset =>
       /\ state' = InitialState
       /\ timers' = EmptyBag
       /\ cleanup' = None
       /\ state = InitialState => UNCHANGED vars]_vars

\* C11 happens: a reset has put the initial state in place of the state of
\* an operation that is still awaited
C11_Witness ==
  /\ state = InitialState
  /\ ops # EmptyBag

\* C12: when handleSearch stores its articles after a translation, every
\* article whose entry in the translated array is missing or empty has its
\* own title as translatedTitle; and no stored article has a translatedTitle
\* that is undefined or empty
C12_TranslationFallback ==
  [][/\ \A op \in {o \in BagToSet(ops) : o.pc = "translate"} :
          \A translatedTitles \in TranslateResults([k \in 1..Len(op.articles) |-> op.articles[k].title]) :
            (~translatedTitles.null /\ TranslateReturn(op, translatedTitles)) =>
               /\ Len(state'.searchResults) = Len(op.articles)
               /\ \A k \in 1..Len(op.articles) :
                    (k > Len(translatedTitles.items) \/ translatedTitles.items[k] = "") =>
                       state'.searchResults[k].translatedTitle = Some(op.articles[k].title)
     /\ \A k \in 1..Len(state'.searchResults) :
          /\ state'.searchResults[k].translatedTitle # None
          /\ state'.searchResults[k].translatedTitle # Some("")
    ]_vars

\* C12 happens: of two articles stored, the first has its translation and
\* the second, beyond the translated array, its own title
C12_Witness ==
  /\ Len(state.searchResults) = 2
  /\ state.searchResults[1].translatedTitle = Some(Translated(state.searchResults[1].title))
  /\ state.searchResults[2].translatedTitle = Some(state.searchResults[2].title)

\* C13: when the translated array has another length than the titles sent,
\* every article stored by that search has its own title as translatedTitle
C13_WrongLengthFallsBack ==
  [][\A op \in {o \in BagToSet(ops) : o.pc = "translate"} :
       \A translatedTitles \in TranslateResults([k \in 1..Len(op.articles) |-> op.articles[k].title]) :
         (/\ ~translatedTitles.null
          /\ Len(translatedTitles.items) # Len(op.articles)
          /\ TranslateReturn(op, translatedTitles)) =>
            \A k \in 1..Len(state'.searchResults) :
              state'.searchResults[k].translatedTitle = Some(state'.searchResults[k].title)
    ]_vars

\* C14: whatever translateTitlesToJapanese resolves to, handleSearch stores
\* the articles it fetched, in their order, and sets no error
C14_TranslationNeverBlocks ==
  [][\A op \in {o \in BagToSet(ops) : o.pc = "translate"} :
       \A translatedTitles \in TranslateResults([k \in 1..Len(op.articles) |-> op.articles[k].title]) :
         TranslateReturn(op, translatedTitles) =>
           /\ state'.error = state.error
           /\ Len(state'.searchResults) = Len(op.articles)
           /\ \A k \in 1..Len(op.articles) :
                /\ state'.searchResults[k].uid = op.articles[k].uid
                /\ state'.searchResults[k].title = op.articles[k].title
    ]_vars

\* C15: extractMeSHTerms never fails: handleExtractMeSH, run on a text that
\* is not blank, sets no error, neither at once nor when the oracle has
\* answered, and then stores a term list
C15_ExtractionNeverFails ==
  [][/\ handleExtractMeSH => state'.error = None
     /\ \A op \in BagToSet(ops), reply \in ExtractReplies :
          ExtractReturn(op, reply) =>
            /\ state'.error = state.error
            /\ ~reply.ok => state'.meshTerms = FallbackTerms(op.inputText)
    ]_vars

\* C16: no placeholder text is stored as an analysis or as the final
\* review, or collected by a run for the synthesis
C16_NoPlaceholderStored ==
  /\ \A d \in Range(state.detailedAnalyses) :
       d.analysis \notin {NoKeyText, "Analysis failed."}
  /\ state.finalReview \notin {Some(NoKeyText), Some("Review generation failed.")}
  /\ \A op \in BagToSet(ops) : \A d \in Range(op.analyses) :
       d.analysis \notin {NoKeyText, "Analysis failed."}

\* C17: when a run of handleAnalyzeSelected succeeds, detailedAnalyses has
\* one entry per id the run was started for: as many entries as ids, their
\* pmids pairwise distinct, and finalReview is a non-empty string
C17_OneAnalysisPerSelectedId ==
  [][\A op \in {o \in BagToSet(ops) : o.pc = "synthesize"} :
       \A reply \in SynthesizeReplies :
         (reply.ok /\ SynthesizeReturn(op, reply)) =>
            /\ Len(state'.detailedAnalyses) =
                 Cardinality({a.uid : a \in Range(op.articles)})
            /\ \A j, k \in 1..Len(state'.detailedAnalyses) :
                 j # k => state'.detailedAnalyses[j].pmid # state'.detailedAnalyses[k].pmid
            /\ state'.finalReview \notin {None, Some("")}
    ]_vars

\* how often the text p occurs in the text s
Occurrences(s, p) ==
  Cardinality({i \in 1..(Len(s) - Len(p) + 1) : SubSeq(s, i, i + Len(p) - 1) = p})

\* the clauses of the selected terms, one after the other
RECURSIVE ClausesInOrder(_)
ClausesInOrder(terms) ==
  IF terms = <<>> THEN ""
  ELSE IF ~Head(terms).selected THEN ClausesInOrder(Tail(terms))
  ELSE LET name == Head(terms).term
           rest == ClausesInOrder(Tail(terms))
       IN  "(\"" \o name \o "\"[MeSH Terms] OR \"" \o name \o "\"[Title/Abstract])"
             \o (IF rest = "" THEN "" ELSE " AND " \o rest)

\* C18: once the timer of a term list has fired, with no term selected the
\* query is empty (the count is 0, no request); with k >= 1 terms selected
\* the query of the request has k MeSH matches and k free-text matches, is
\* the clauses of the selected terms in list order joined by AND, and ends
\* with one date clause from the current year minus 10
C18_QueryClauses ==
  timers = EmptyBag /\ Len(state.meshTerms) > 0 =>
    LET k == Cardinality({i \in 1..Len(state.meshTerms) : state.meshTerms[i].selected})
    IN  IF k = 0
        THEN counts = EmptyBag /\ state.hitCount = Some(0)
             /\ constructQuery(state.meshTerms, currentYear) = ""
        ELSE /\ BagCardinality(counts) = (IF state.isCounting THEN 1 ELSE 0)
             /\ \A request \in BagToSet(counts) :
                  /\ Occurrences(request.query, "[MeSH Terms]") = k
                  /\ Occurrences(request.query, "[Title/Abstract]") = k
                  /\ Occurrences(request.query, " OR ") = k
                  /\ Occurrences(request.query, " AND ") = k
                  /\ Occurrences(request.query, "[Date - Publication]") = 2
                  /\ request.query =
                       "(" \o ClausesInOrder(state.meshTerms) \o ") AND (\""
                         \o ToString(currentYear - 10)
                         \o "/01/01\"[Date - Publication] : \"3000\"[Date - Publication])"

\* C18 happens: the query was made for a list of three terms of which the
\* second is not selected
C18_Witness ==
  /\ Len(state.meshTerms) = 3
  /\ state.meshTerms[1].selected /\ ~state.meshTerms[2].selected /\ state.meshTerms[3].selected
  /\ BagCardinality(counts) = 1

\* C19: getPubMedHitCount never fails: with no term selected the count is 0
\* and no request is issued; when the request is answered no error is set,
\* the count of an OK response is published, and 0 for a response that is
\* not OK, a rejected request or a body that does not parse
C19_CountNeverFails ==
  [][/\ \A terms \in BagToSet(timers) :
          (selectedTerms(terms) = <<>> /\ TimerFire(terms)) =>
             /\ counts' = counts
             /\ state'.hitCount = Some(0)
             /\ state'.error = state.error
     /\ \A request \in BagToSet(counts), reply \in CountReplies :
          CountReturn(request, reply) =>
             /\ state'.error = state.error
             /\ ~state'.isCounting
             /\ state'.hitCount =
                  IF reply.status = "ok" /\ reply.count # None THEN reply.count ELSE Some(0)
    ]_vars

\* C19 happens: a list without a selected term has the count 0, its timer
\* has fired and no request is in flight
C19_Witness ==
  /\ Len(state.meshTerms) > 0
  /\ selectedTerms(state.meshTerms) = <<>>
  /\ timers = EmptyBag
  /\ counts = EmptyBag
  /\ state.hitCount = Some(0)

\* a request of a search that is in flight after the step and was not before
NewSearchRequests(pc) ==
  {o \in BagToSet(ops') :
     o.kind = "search" /\ o.pc = pc /\ CopiesIn(o, ops') > CopiesIn(o, ops)}

\* C20: handleSearch with no term selected fails without a request; an
\* esearch request is issued only by handleSearch, for a query that is not
\* empty; an efetch request is issued only in place of an esearch request
\* and for an id list that is not empty; an esearch answer with an empty id
\* list ends the search with no articles and no further request; an
\* esearch or efetch request that fails ends the search with an error
C20_SearchProtocol ==
  [][/\ (handleSearch /\ selectedTerms(state.meshTerms) = <<>>) =>
          /\ ops' = ops
          /\ state'.error = Some("No MeSH terms selected.")
          /\ state'.searchResults = state.searchResults
     /\ NewSearchRequests("esearch") # {} =>
          /\ selectedTerms(state.meshTerms) # <<>>
          /\ BagCardinality(ops') = BagCardinality(ops) + 1
     /\ \A o \in NewSearchRequests("efetch") :
          /\ Len(o.idList) > 0
          /\ \E op \in BagToSet(ops) :
               op.kind = "search" /\ op.pc = "esearch" /\ ops' = Add(Remove(ops, op), o)
     /\ \A op \in {o \in BagToSet(ops) : o.pc = "esearch"}, reply \in EsearchReplies :
          EsearchReturn(op, reply) =>
            /\ (reply.status = "ok" /\ reply.idList = <<>>) =>
                  /\ ops' = Remove(ops, op)
                  /\ state'.searchResults = <<>>
                  /\ state'.error = state.error
            /\ reply.status # "ok" =>
                  /\ ops' = Remove(ops, op)
                  /\ state'.error # None
                  /\ state'.searchResults = state.searchResults
     /\ \A op \in {o \in BagToSet(ops) : o.pc = "efetch"} :
          \A reply \in EfetchReplies(op.idList) :
            (reply.status # "ok" /\ EfetchReturn(op, reply)) =>
              /\ ops' = Remove(ops, op)
              /\ state'.error # None
              /\ state'.searchResults = state.searchResults
    ]_vars

\* C20 happens: the details of a list of ids are being fetched
C20_Witness ==
  \E op \in BagToSet(ops) :
    op.kind = "search" /\ op.pc = "efetch" /\ Len(op.idList) > 0

\* the requests of analysis runs that are in flight after the step and were
\* not before
NewAnalyzeRequests ==
  {o \in BagToSet(ops') : o.kind = "analyze" /\ CopiesIn(o, ops') > CopiesIn(o, ops)}

\* C21: a run of handleAnalyzeSelected has one call in flight: the analysis
\* of article i, issued when the analyses of the articles before it have
\* resolved and are collected in their order, or the synthesis, issued when
\* every article has its analysis; a call is issued only by the handler
\* (the first analysis) or in place of the analysis that has just
\* resolved; a rejected analysis issues nothing further; and the analyses
\* stored are those of the run's articles in the order of the calls
C21_SequentialAnalysis ==
  [][/\ \A o \in {r \in BagToSet(ops') : r.kind = "analyze"} :
          /\ o.pc = "analyze" => (o.i \in 1..Len(o.articles) /\ Len(o.analyses) = o.i - 1)
          /\ o.pc = "synthesize" => Len(o.analyses) = Len(o.articles)
          /\ \A k \in 1..Len(o.analyses) : o.analyses[k].originalArticle = o.articles[k]
     /\ \A o \in NewAnalyzeRequests :
          \/ /\ o.pc = "analyze" /\ o.i = 1
             /\ ops' = Add(ops, o)
             /\ o.articles = selectedArticles(state)
          \/ \E op \in BagToSet(ops) :
               /\ op.kind = "analyze" /\ op.pc = "analyze"
               /\ ops' = Add(Remove(ops, op), o)
               /\ o.articles = op.articles
               /\ Len(o.analyses) = Len(op.analyses) + 1
               /\ SubSeq(o.analyses, 1, Len(op.analyses)) = op.analyses
               /\ IF op.i < Len(op.articles)
                  THEN o.pc = "analyze" /\ o.i = op.i + 1
                  ELSE o.pc = "synthesize"
     /\ \A op \in {r \in BagToSet(ops) : r.pc = "analyze"}, reply \in AllAnalyzeReplies :
          (~reply.ok /\ AnalyzeReturn(op, reply)) => ops' = Remove(ops, op)
     /\ \A op \in {r \in BagToSet(ops) : r.pc = "synthesize"}, reply \in SynthesizeReplies :
          (reply.ok /\ SynthesizeReturn(op, reply)) =>
             /\ ops' = Remove(ops, op)
             /\ [k \in 1..Len(state'.detailedAnalyses) |->
                   state'.detailedAnalyses[k].originalArticle] = op.articles
    ]_vars

\* C21 happens: the analysis of the second of two articles is in flight,
\* that of the first is collected
C21_Witness ==
  \E op \in BagToSet(ops) :
    /\ op.kind = "analyze" /\ op.pc = "analyze"
    /\ Len(op.articles) = 2 /\ op.i = 2
    /\ Len(op.analyses) = 1
    /\ op.analyses[1].originalArticle = op.articles[1]

\* C22: isCounting is true in every state in which a count request is in
\* flight
C22_CountingWhileInFlight ==
  counts # EmptyBag => state.isCounting

\* C23: a step that changes the terms to a list with no selected term
\* leaves hitCount null and issues no count request; and the timer of such
\* a list, when it fires, issues no request and does not publish 0
C23_EmptySelectionIsAbsent ==
  [][/\ (state'.meshTerms # state.meshTerms /\ selectedTerms(state'.meshTerms) = <<>>) =>
          /\ state'.hitCount = None
          /\ counts' = counts
     /\ \A terms \in BagToSet(timers) :
          (selectedTerms(terms) = <<>> /\ TimerFire(terms)) =>
             /\ counts' = counts
             /\ state'.hitCount # Some(0)
    ]_vars

\* the message of the error a failed esearch or efetch request carries
SearchFailure(pc, status) ==
  IF status = "rejected" THEN TransportError
  ELSE IF pc = "esearch" THEN "PubMed Search Failed" ELSE "PubMed Fetch Failed"

\* C24: when searchPubMedWithMeSH fails (no term selected, or an esearch or
\* efetch request that is not OK or is rejected), the step stores the
\* message of the failure as error, leaves isLoading false and every other
\* field of the state as it was, and ends the search: no translation is
\* requested
C24_SearchFailureKeepsState ==
  [][/\ (handleSearch /\ selectedTerms(state.meshTerms) = <<>>) =>
          /\ state' = [state EXCEPT !.isLoading = FALSE,
                                    !.error = Some("No MeSH terms selected.")]
          /\ ops' = ops
     /\ \A op \in {o \in BagToSet(ops) : o.pc = "esearch"}, reply \in EsearchReplies :
          (reply.status # "ok" /\ EsearchReturn(op, reply)) =>
             /\ state' = [state EXCEPT !.isLoading = FALSE,
                                       !.error = Some(SearchFailure("esearch", reply.status))]
             /\ ops' = Remove(ops, op)
     /\ \A op \in {o \in BagToSet(ops) : o.pc = "efetch"} :
          \A reply \in EfetchReplies(op.idList) :
            (reply.status # "ok" /\ EfetchReturn(op, reply)) =>
               /\ state' = [state EXCEPT !.isLoading = FALSE,
                                         !.error = Some(SearchFailure("efetch", reply.status))]
               /\ ops' = Remove(ops, op)
    ]_vars

\* C24 happens: a search has failed at efetch while the articles of an
\* earlier search are on display, and they still are
C24_Witness ==
  /\ state.error = Some("PubMed Fetch Failed")
  /\ Len(state.searchResults) > 0
  /\ ~state.isLoading
  /\ ops = EmptyBag

\* C25: toggleMeSHTerm(index) flips the selected flag of the term at index
\* and leaves every other field of the state as it was: the terms are as
\* many, in the same order, with the same text, the flags of the other
\* terms are kept; and it starts or ends no stage operation and no count
\* request
C25_ToggleFlipsOneFlag ==
  [][\A index \in 1..Len(state.meshTerms) :
       toggleMeSHTerm(index) =>
         /\ Len(state'.meshTerms) = Len(state.meshTerms)
         /\ \A k \in 1..Len(state.meshTerms) :
              /\ state'.meshTerms[k].term = state.meshTerms[k].term
              /\ state'.meshTerms[k].selected =
                   (IF k = index THEN ~state.meshTerms[k].selected
                    ELSE state.meshTerms[k].selected)
         /\ state' = [state EXCEPT !.meshTerms = state'.meshTerms]
         /\ ops' = ops
         /\ counts' = counts
    ]_vars

\* C25 happens: of the two terms the first was unchecked, the second is
\* still selected, while articles are on display
C25_Witness ==
  /\ Len(state.meshTerms) = 2
  /\ ~state.meshTerms[1].selected
  /\ state.meshTerms[2].selected
  /\ Len(state.searchResults) > 0

\* an entry of analyses that belongs to its document: the id is the
\* document's, the text is what analyzeArticleDeeply returns for it
BoundToDocument(d) ==
  /\ d.pmid = d.originalArticle.uid
  /\ d.analysis \in {AnalysisOf(d.originalArticle), "Analysis failed.", NoKeyText}

\* C26: every entry of detailedAnalyses, and every entry a run in flight
\* has collected, has the uid of its originalArticle as pmid and the text
\* returned by the analysis of that article as analysis
C26_AnalysisBoundToDocument ==
  /\ \A d \in Range(state.detailedAnalyses) : BoundToDocument(d)
  /\ \A op \in BagToSet(ops) : \A d \in Range(op.analyses) : BoundToDocument(d)

\* C26 happens: the analyses of two different documents are stored
C26_Witness ==
  /\ Len(state.detailedAnalyses) = 2
  /\ state.detailedAnalyses[1].pmid # state.detailedAnalyses[2].pmid
  /\ state.detailedAnalyses[2].analysis = AnalysisOf(state.detailedAnalyses[2].originalArticle)

\* what C27 asks of the article parsed from one record
ParsedAsClaimed(article, node) ==
  /\ article.uid = (IF node.pmid = None THEN "" ELSE node.pmid[1])
  /\ article.title = (IF node.title = None THEN "Untitled" ELSE node.title[1])
  /\ node = BareRecord =>
       /\ article.uid = ""
       /\ article.title = "Untitled"
       /\ article.authors = <<>>
       /\ article.pubDate = ""
       /\ article.abstract = ""
       /\ article.journal = ""
       /\ article.references = None
  /\ Len(article.authors) <= AuthorsShown + 1
  /\ Len(article.authors) = AuthorsShown + 1 => article.authors[AuthorsShown + 1] = "et al."
  /\ \A k \in 1..Len(article.authors) : k <= AuthorsShown => article.authors[k] # "et al."
  /\ node.authorList # None =>
       Len(article.authors) = (IF Len(node.authorList[1]) > AuthorsShown
                               THEN AuthorsShown + 1 ELSE Len(node.authorList[1]))
  /\ article.references # Some(<<>>)
  /\ article.references # None => Len(article.references[1]) <= ReferencesKept

\* C27: an OK efetch response never fails the search, whatever its
\* records: fetchArticleDetails returns one article per record, in the
\* order of the records; a record with none of its elements gives uid "",
\* title "Untitled", no authors, an empty pubDate and abstract and no
\* references; the authors of an article are at most five names and then
\* one "et al.", its references are absent or between one and ten
C27_ParsingNeverFails ==
  [][\A op \in {o \in BagToSet(ops) : o.pc = "efetch"} :
       \A reply \in EfetchReplies(op.idList) :
         (reply.status = "ok" /\ Len(reply.nodes) > 0 /\ EfetchReturn(op, reply)) =>
            /\ state'.error = state.error
            /\ \E o \in BagToSet(ops') :
                 /\ o.pc = "translate"
                 /\ ops' = Add(Remove(ops, op), o)
                 /\ Len(o.articles) = Len(reply.nodes)
                 /\ \A k \in 1..Len(reply.nodes) : ParsedAsClaimed(o.articles[k], reply.nodes[k])
    ]_vars

\* C27 happens: the articles of a bare and of a crowded record are stored,
\* in that order, the second with six authors and ten references
C27_Witness ==
  /\ Len(state.searchResults) = 2
  /\ state.searchResults[1].uid = "" /\ state.searchResults[1].references = None
  /\ state.searchResults[2].uid = "2"
  /\ Len(state.searchResults[2].authors) = AuthorsShown + 1
  /\ state.searchResults[2].references # None
  /\ Len(state.searchResults[2].references[1]) = ReferencesKept - 1

\* C28: finalReview is not null if and only if detailedAnalyses is not
\* empty, in every state
C28_ReviewIffAnalyses ==
  state.finalReview # None <=> state.detailedAnalyses # <<>>

\* C28 happens: a run has stored its analyses with their review, and a
\* later run has failed without touching them
C28_Witness ==
  /\ state.finalReview = Some("Review")
  /\ Len(state.detailedAnalyses) > 0
  /\ state.error = Some(TransportError)

\* C29: simpleAnalysisResult and finalReview are never both set
C29_OneNarrative ==
  ~(state.simpleAnalysisResult # None /\ state.finalReview # None)

\* a stage handler runs up to its first await
StageHandler ==
  handleExtractMeSH \/ handleDirectAnalysis \/ handleSearch \/ handleAnalyzeSelected

\* C30: a stage handler either suspends at a call, with isLoading true, or
\* has failed at once, with isLoading false; every step that ends a stage
\* operation, on success or on failure, leaves isLoading false; and, every
\* call awaited settling, isLoading when true is eventually false
C30_BusyEnds ==
  /\ [][/\ StageHandler =>
             \/ BagCardinality(ops') = BagCardinality(ops) + 1 /\ state'.isLoading
             \/ ops' = ops /\ ~state'.isLoading
        /\ BagCardinality(ops') < BagCardinality(ops) => ~state'.isLoading
       ]_vars
  /\ state.isLoading ~> ~state.isLoading

\* C30 happens: an analysis has ended with its review stored and a later
\* operation has ended on its failure; nothing is loading
C30_Witness ==
  /\ state.finalReview # None
  /\ state.error # None
  /\ ops = EmptyBag
  /\ ~state.isLoading

\* a step that stores a new meshTerms array, so that the effect runs
TermsStored ==
  \/ handleReset
  \/ \E index \in 1..Len(state.meshTerms) : toggleMeSHTerm(index)
  \/ ExtractSettles
  \/ handleDirectAnalysis

\* the live count is at rest with a count published
AtRest ==
  /\ Len(state.meshTerms) > 0
  /\ timers = EmptyBag
  /\ counts = EmptyBag
  /\ ~state.isCounting
  /\ state.hitCount # None

\* C31: if from some point on no step stores a new meshTerms array and the
\* list is not empty, then, the pending timer firing and every count
\* request settling, from some point on isCounting is false and hitCount
\* is not null; and the live count once at rest stays at rest, with the
\* count it has, until a step stores a new meshTerms array
C31_LiveCountConverges ==
  /\ \/ []<><<TermsStored>>_vars
     \/ <>[](Len(state.meshTerms) > 0 => (~state.isCounting /\ state.hitCount # None))
  /\ [][(AtRest /\ ~TermsStored) =>
          (AtRest' /\ state'.hitCount = state.hitCount)]_vars

\* C31 happens: after the second term was unchecked the count of the first
\* alone is published and nothing is pending
C31_Witness ==
  /\ AtRest
  /\ Len(state.meshTerms) = 2
  /\ state.meshTerms[1].selected /\ ~state.meshTerms[2].selected
  /\ state.hitCount = Some(1)

====
